---- MODULE Spec2Model ----
(***************************************************************************)
(* State-machine model of custom_components/daikinskyport/daikinskyport.py *)
(* (class DaikinSkyport).  One step of the model is one HTTP exchange of   *)
(* the session (request sent, response or transport failure received)      *)
(* together with all the local code the handler runs up to its next HTTP   *)
(* request or its return.  The server is nondeterministic: every exchange  *)
(* may be answered by any status the endpoint can produce.                 *)
(* The module function config_from_file is modelled on its own, over files *)
(* that hold anything (SpecConfig).                                        *)
(*                                                                         *)
(* Encoding of Python values:                                              *)
(*   - strings are TLA+ strings, '' is "", None is the string "None";      *)
(*   - a dict is a function from its keys (strings) to values;             *)
(*   - a list is a sequence (Python position i is TLA+ position i+1);      *)
(*   - temperatures are integers in hundredths of a degree;                *)
(*   - a value whose Python type decides the control flow is a record      *)
(*     [type |-> ..., val |-> ...] or [kind |-> ..., val |-> ...].         *)
(***************************************************************************)
EXTENDS Integers, Sequences, FiniteSets, TLC

VARIABLES
    \* fields of the DaikinSkyport object
    thermostats,      \* self.thermostats: the device cache
    thermostatlist,   \* self.thermostatlist: the last device list response
    authenticated,    \* self.authenticated
    access_token,     \* self.access_token
    refresh_token,    \* self.refresh_token
    user_password,    \* self.user_password, or Unset when the attribute is missing
    stored,           \* the persisted credential mapping (config file or self.config)
    \* the running public operation
    pc,               \* position: the next HTTP exchange, or new / idle / done / dead
    op,               \* the public method the caller invoked
    frame,            \* locals and arguments of the active calls
    result,           \* the value the public method returned
    raised,           \* the exception that left the public method, "" when none
    \* the server's data, and history the properties are stated over
    remote,           \* the server's device data when it is held fixed
    sent,             \* requests sent per endpoint during the running operation
    last,             \* the last exchange of the running operation
    authReply,        \* the tokens of the last successful auth response
    cache0,           \* the cache when the running operation was called
    fetched,          \* the detail payloads the running fetch got, by list position
    prevFetchOk,      \* the previous operation was a successful get_thermostats
    lastDev,          \* the most recent device-endpoint request: outcome and token
    \* the config files, and the calls of config_from_file
    files,            \* content of each config file
    cfgCall,          \* the last call of config_from_file and what it returned
    cfgPrev           \* the call of config_from_file before the last

vars == <<thermostats, thermostatlist, authenticated, access_token, refresh_token,
          user_password, stored, pc, op, frame, result, raised, remote, sent,
          last, authReply, cache0, fetched, prevFetchOk, lastDev,
          files, cfgCall, cfgPrev>>

session == <<thermostats, thermostatlist, authenticated, access_token,
             refresh_token, user_password, stored>>

disk == <<files, cfgCall, cfgPrev>>

-----------------------------------------------------------------------------
(* Bounds and input sets *)

\* Depth of nested Python frames at which the interpreter raises
\* RecursionError (sys.getrecursionlimit(), scaled down).
RecursionLimit == 3

None == "None"
Unset == "<unset>"
EmptyStr == ""
Email == "user@example.org"
Password == "secret"

DeviceIds == {"d1", "d2"}
Tokens == {"t1", "t2"}

\* GET /devices answers: lists of {id, name}
Entry(i, n) == [id |-> i, name |-> n]
Lists == { <<>>,
           <<Entry("d1", "Hall")>>,
           <<Entry("d2", "Attic"), Entry("d1", "Lobby")>>,
           <<Entry("d1", "Hall"), Entry("d1", "Lobby")>> }

\* GET /deviceData/{id} answers: field mappings of different shapes
FullPayload == [hspHome |-> 2046, cspHome |-> 2432, schedOverrideDuration |-> 60,
                hspAway |-> 1678, cspAway |-> 2889]
SparsePayload == [hspHome |-> 1900, name |-> "Stale"]
Payloads == {FullPayload, SparsePayload}

\* POST /users/auth/login success bodies: refreshToken may be JSON null
LoginReplies == { [accessToken |-> "t1", refreshToken |-> "t1"],
                  [accessToken |-> "t2", refreshToken |-> None] }

\* configurations a session is constructed from
ConfigInputs == { [EMAIL |-> Email, PASSWORD |-> Password],
                  [EMAIL |-> Email, ACCESS_TOKEN |-> "t1", REFRESH_TOKEN |-> "t1"],
                  [EMAIL |-> Email, PASSWORD |-> Password,
                   ACCESS_TOKEN |-> "t2", REFRESH_TOKEN |-> "t1"] }

\* The server's device data.  fixed = FALSE: every answer may carry any data.
Volatile == [fixed |-> FALSE, list |-> <<>>, details |-> [d \in DeviceIds |-> FullPayload]]
Remotes == { [fixed |-> TRUE, list |-> l, details |-> d] :
             l \in Lists, d \in [DeviceIds -> Payloads] }

ListReplies == IF remote.fixed THEN {remote.list} ELSE Lists
InfoReplies(id) == IF remote.fixed THEN {remote.details[id]} ELSE Payloads

\* What an exchange can be answered with.  "down" is a RequestException,
\* "ok" is status 200, "expired" is 401 with error 'authorization_expired',
\* "denied" is 401 with another error, "error" is any other status.
GetStatuses == {"down", "ok", "expired", "error"}
PutStatuses == {"down", "ok", "expired", "denied", "error"}
AuthStatuses == {"down", "ok", "error"}

NoneResult == [kind |-> "None", val |-> <<>>]
Value(v) == [kind |-> "value", val |-> v]

NoSent == [devices |-> 0, info |-> 0, put |-> 0, token |-> 0, login |-> 0]
NoLast == [ep |-> "", status |-> ""]
NoFrame == [gt |-> 0, gti |-> 0, pos |-> 0, deviceid |-> "", caller |-> "",
            index |-> [type |-> "int", val |-> 0], body |-> <<>>,
            retry_count |-> 0, args |-> <<>>, bearer |-> ""]
NoDev == [ok |-> FALSE, token |-> ""]
NoReply == [accessToken |-> "", refreshToken |-> ""]

-----------------------------------------------------------------------------
(* Pure helpers *)

\* get_thermostats lines 135-136: the detail payload with name and id of
\* the list entry written into it.
Merged(info, thermostat) ==
    [k \in (DOMAIN info) \cup {"name", "id"} |->
        IF k = "name" THEN thermostat["name"]
        ELSE IF k = "id" THEN thermostat["id"]
        ELSE info[k]]

\* Upsert with a field-level merge: a matching entry keeps the fields the
\* new payload does not carry (self.thermostats[index].update(...)).
UpsertMerging(cache, info) ==
    IF \E i \in DOMAIN cache : cache[i]["id"] = info["id"]
    THEN [i \in DOMAIN cache |->
            IF cache[i]["id"] = info["id"]
            THEN [k \in (DOMAIN cache[i]) \cup (DOMAIN info) |->
                    IF k \in DOMAIN info THEN info[k] ELSE cache[i][k]]
            ELSE cache[i]]
    ELSE Append(cache, info)

\* Upsert with the overwrite flag never set: a matching entry is replaced
\* and the payload is appended as well.
UpsertAlsoAppends(cache, info) ==
    Append([i \in DOMAIN cache |->
              IF cache[i]["id"] = info["id"] THEN info ELSE cache[i]], info)

\* Upsert that never looks for the id: every payload is appended.
UpsertAppends(cache, info) == Append(cache, info)

\* Upsert that drops the matching entries and appends the payload: a device
\* fetched again moves to the end of the cache.
UpsertMovesToEnd(cache, info) ==
    LET Other(entry) == entry["id"] # info["id"]
    IN  Append(SelectSeq(cache, Other), info)

\* get_thermostats lines 133, 137-142: replace every cached entry with the
\* same id in place, append when no entry has that id.
Upsert(cache, info) ==
    IF \E i \in DOMAIN cache : cache[i]["id"] = info["id"]
    THEN [i \in DOMAIN cache |->
            IF cache[i]["id"] = info["id"] THEN info ELSE cache[i]]
    ELSE Append(cache, info)

\* round(x, 1) on a value in hundredths: the closest multiple of a tenth,
\* a tie going to the even tenth (Python's rule for exact ties).
Round1(x) ==
    LET r == x % 10
        lo == x - r
    IN  IF r < 5 THEN lo
        ELSE IF r > 5 THEN lo + 10
        ELSE IF (lo \div 10) % 2 = 0 THEN lo ELSE lo + 10

\* write_tokens_to_file: the mapping that is persisted
TokenConfig(access, refresh) ==
    [ACCESS_TOKEN |-> access, REFRESH_TOKEN |-> refresh, EMAIL |-> Email]

-----------------------------------------------------------------------------
(* Control flow between HTTP exchanges.  Each operator gives the outcome of   *)
(* the local code that runs from one point to the next HTTP request or to the *)
(* return of the public method: the next position, the frame, the cache, the  *)
(* returned value and the exception.                                          *)

Out(p, f, c, res, exc) ==
    [pc |-> p, frame |-> f, thermostats |-> c, result |-> res, raised |-> exc]

Returns(f, c, res) == Out("done", f, c, res, "")
Raises(f, c, exc) == Out("done", f, c, NoneResult, exc)
Goto(p, f, c) == Out(p, f, c, NoneResult, "")

Depth(f) == f.gt + f.gti

\* get_thermostats is entered (lines 119-125)
EnterGetThermostats(f, c) ==
    IF Depth(f) >= RecursionLimit THEN Raises(f, c, "RecursionError")
    ELSE Goto("get_devices", [f EXCEPT !.gt = @ + 1], c)

\* get_thermostat_info(deviceid) is entered (lines 153-159)
EnterGetThermostatInfo(f, c, id) ==
    IF Depth(f) >= RecursionLimit THEN Raises(f, c, "RecursionError")
    ELSE Goto("get_info", [f EXCEPT !.gti = @ + 1, !.deviceid = id], c)

\* make_request(index, body, ..., retry_count) is entered (lines 228-233):
\* self.thermostats[index] needs an integer index.
EnterMakeRequest(f, c, index, body, rc) ==
    IF index.type # "int" THEN Raises(f, c, "TypeError")
    ELSE Goto("put", [f EXCEPT !.index = index, !.body = body.val,
                                !.retry_count = rc,
                                !.deviceid = c[index.val + 1]["id"]], c)

\* refresh_tokens is entered by `who` (lines 104-111)
EnterRefreshTokens(f, c, who) == Goto("refresh", [f EXCEPT !.caller = who], c)

\* request_tokens is entered (lines 80-87): reads self.user_password
EnterRequestTokens(f, c, password) ==
    IF password = Unset THEN Raises(f, c, "AttributeError")
    ELSE Goto("login", f, c)

\* the loop with the cache emptied before the first list entry is merged
\* (the cache rebuilt from each list response)
LoopRebuilds(f, c, list, k) ==
    IF k > Len(list) THEN Returns(f, c, Value(c))
    ELSE EnterGetThermostatInfo([f EXCEPT !.pos = k, !.gti = 0],
                                IF k = 1 THEN <<>> ELSE c, list[k]["id"])

\* the for loop of get_thermostats from list position k (lines 132-134, 143)
Loop(f, c, list, k) ==
    IF k > Len(list) THEN Returns(f, c, Value(c))
    ELSE EnterGetThermostatInfo([f EXCEPT !.pos = k, !.gti = 0], c, list[k]["id"])

\* the loop of get_thermostats giving up with None when a detail fetch
\* returned None, the entries merged so far staying in the cache
ReturnInfoGivesUp(f, c, v) ==
    IF op = "get_thermostat_info" THEN Returns(f, c, v)
    ELSE IF v.kind = "None" THEN Returns(f, c, NoneResult)
    ELSE Loop(f, Upsert(c, Merged(v.val, thermostatlist[f.pos])),
              thermostatlist, f.pos + 1)

\* get_thermostat_info returns v: to the caller of the public method, or to
\* the loop of get_thermostats (lines 134-142), which subscripts it.
ReturnInfo(f, c, v) ==
    IF op = "get_thermostat_info" THEN Returns(f, c, v)
    ELSE IF v.kind = "None" THEN Raises(f, c, "TypeError")
    ELSE Loop(f, Upsert(c, Merged(v.val, thermostatlist[f.pos])),
              thermostatlist, f.pos + 1)

\* the retry of make_request (lines 244-245): the arguments as the code
\* passes them, body in the place of index and deviceID in the place of body
RetryMakeRequest(f, c) ==
    EnterMakeRequest(f, c, [type |-> "dict", val |-> f.body],
                     [type |-> "str", val |-> f.deviceid], f.retry_count + 1)

\* refresh_tokens returned ok (True) or not (None) to its caller
\* (lines 148-151, 170-173, 243-245)
ReturnRefresh(f, c, ok) ==
    CASE f.caller = "get_thermostats" ->
            IF ok THEN EnterGetThermostats(f, c) ELSE Returns(f, c, NoneResult)
      [] f.caller = "get_thermostat_info" ->
            IF ok THEN EnterGetThermostatInfo(f, c, f.deviceid)
            ELSE ReturnInfo(f, c, NoneResult)
      [] OTHER ->
            IF ok THEN RetryMakeRequest(f, c) ELSE Returns(f, c, NoneResult)

\* request_tokens returned: to __init__ (lines 75-76), or to refresh_tokens,
\* which then returns None (line 117)
ReturnRequestTokens(f, c) ==
    IF f.caller = "" THEN Returns(f, c, NoneResult)
    ELSE ReturnRefresh(f, c, FALSE)

\* the positions at which a request to a device endpoint is sent next
RequestPcs == {"get_devices", "get_info", "put"}

\* get_thermostats, get_thermostat_info or make_request entered with no
\* header built when a header is already at hand: the retry sends the header
\* of the first attempt
WithHeaderKept(n, token) ==
    IF n.pc \in RequestPcs /\ n.frame.bearer = ""
    THEN [n EXCEPT !.frame.bearer = token] ELSE n

\* get_thermostats, get_thermostat_info and make_request build the header
\* 'Authorization': 'Bearer ' + self.access_token each time they are entered
\* (lines 122-123, 156-157, 231-232); token is self.access_token then
WithHeader(n, token) ==
    IF n.pc \in RequestPcs THEN [n EXCEPT !.frame.bearer = token] ELSE n

Apply(n) ==
    /\ pc' = n.pc
    /\ frame' = n.frame
    /\ thermostats' = n.thermostats
    /\ result' = n.result
    /\ raised' = n.raised

\* the endpoints that take the Bearer token: GET /devices,
\* GET /deviceData/{id}, PUT /deviceData/{id}
DeviceEndpoints == {"devices", "info", "put"}

\* bookkeeping of one exchange with endpoint ep answered s
Exchange(ep, s) ==
    /\ sent' = [sent EXCEPT ![ep] = @ + 1]
    /\ last' = [ep |-> ep, status |-> s]
    /\ lastDev' = IF ep \in DeviceEndpoints
                  THEN [ok |-> s = "ok", token |-> frame.bearer]
                  ELSE lastDev

-----------------------------------------------------------------------------
(* config_from_file: the config files *)

Filenames == {"daikinskyport.conf", "other.conf"}

\* the values a credential mapping holds: strings and None
JsonValues == {Email, Password, "t1", "t2", None}

\* the mappings config_from_file is called with
EmptyMapping == [k \in {} |-> EmptyStr]
ConfigMappings ==
    { EmptyMapping,
      [EMAIL |-> Email, PASSWORD |-> Password],
      [ACCESS_TOKEN |-> "t2", REFRESH_TOKEN |-> None, EMAIL |-> Email] }

\* the argument config: None when omitted
NoConfig == [given |-> FALSE, val |-> EmptyMapping]
GivenConfig(m) == [given |-> TRUE, val |-> m]
ConfigArguments == {NoConfig} \cup { GivenConfig(m) : m \in ConfigMappings }

\* json.dumps of a value: a string in quotes, None as null
JsonValue(v) == IF v = None THEN "null" ELSE "\"" \o v \o "\""

\* json.dumps(config): the members of the JSON object, key and value text
JsonDumps(m) == { <<k, JsonValue(m[k])>> : k \in DOMAIN m }

\* json.loads of the text of an object
JsonLoads(members) ==
    [k \in { member[1] : member \in members } |->
        CHOOSE v \in JsonValues : <<k, JsonValue(v)>> \in members]

\* what a filename holds: nothing, the text of a JSON object, or other text
Missing == [kind |-> "missing", members |-> {}]
Garbage == [kind |-> "garbage", members |-> {}]
JsonText(members) == [kind |-> "json", members |-> members]
FileContents == {Missing, Garbage} \cup { JsonText(JsonDumps(m)) : m \in ConfigMappings }

\* what open() does: it succeeds or raises IOError
IoOutcomes == {"ok", "ioerror"}

\* what config_from_file returns: True or False, a mapping, or an exception
ReturnsBool(b) == [kind |-> "bool", flag |-> b, val |-> EmptyMapping, raised |-> ""]
ReturnsMapping(m) == [kind |-> "dict", flag |-> FALSE, val |-> m, raised |-> ""]
RaisesInConfig(exc) == [kind |-> "raise", flag |-> FALSE, val |-> EmptyMapping,
                        raised |-> exc]

\* `if config:` (line 17): None and the empty dict are falsy
Truthy(config) == config.given /\ DOMAIN config.val # {}

\* config_from_file opening the file to append, not to replace its content
ConfigFromFileAppends(content, config, io) ==
    IF Truthy(config)
    THEN IF io = "ioerror"
         THEN [ret |-> ReturnsBool(FALSE), content |-> content]
         ELSE [ret |-> ReturnsBool(TRUE),
               content |-> IF content.kind = "garbage" THEN Garbage
                           ELSE JsonText(content.members \cup JsonDumps(config.val))]
    ELSE IF content.kind = "missing"
         THEN [ret |-> ReturnsMapping(EmptyMapping), content |-> content]
         ELSE IF io = "ioerror"
         THEN [ret |-> ReturnsBool(FALSE), content |-> content]
         ELSE IF content.kind = "garbage"
         THEN [ret |-> RaisesInConfig("ValueError"), content |-> content]
         ELSE [ret |-> ReturnsMapping(JsonLoads(content.members)), content |-> content]

\* config_from_file(filename, config) on a file holding `content`, open()
\* having the outcome io (lines 15-35): the returned value and the content
\* the file holds afterwards
ConfigFromFile(content, config, io) ==
    IF Truthy(config)
    THEN IF io = "ioerror"
         THEN [ret |-> ReturnsBool(FALSE), content |-> content]
         ELSE [ret |-> ReturnsBool(TRUE), content |-> JsonText(JsonDumps(config.val))]
    ELSE IF content.kind = "missing"
         THEN [ret |-> ReturnsMapping(EmptyMapping), content |-> content]
         ELSE IF io = "ioerror"
         THEN [ret |-> ReturnsBool(FALSE), content |-> content]
         ELSE IF content.kind = "garbage"
         THEN [ret |-> RaisesInConfig("ValueError"), content |-> content]
         ELSE [ret |-> ReturnsMapping(JsonLoads(content.members)), content |-> content]

NoCall == [filename |-> "", config |-> NoConfig, io |-> "", before |-> Missing,
           ret |-> ReturnsBool(FALSE)]

-----------------------------------------------------------------------------
(* Initial states *)

\* no config file written and config_from_file not called
DiskIdle ==
    /\ files = [f \in Filenames |-> Missing]
    /\ cfgCall = NoCall
    /\ cfgPrev = NoCall

Blank ==
    /\ thermostats = <<>>
    /\ thermostatlist = <<>>
    /\ authenticated = FALSE
    /\ access_token = EmptyStr
    /\ refresh_token = EmptyStr
    /\ user_password = Unset
    /\ stored = <<>>
    /\ pc = "new"

Quiet ==
    /\ op = ""
    /\ frame = NoFrame
    /\ result = NoneResult
    /\ raised = ""
    /\ sent = NoSent
    /\ last = NoLast
    /\ authReply = NoReply
    /\ cache0 = <<>>
    /\ fetched = <<>>
    /\ prevFetchOk = FALSE
    /\ lastDev = NoDev

\* no session constructed yet; the server's data may change at any time
Init == Blank /\ Quiet /\ DiskIdle /\ remote = Volatile

\* config_from_file alone: no session is constructed, the files hold anything
InitConfig ==
    /\ Blank /\ Quiet /\ remote = Volatile
    /\ files \in [Filenames -> FileContents]
    /\ cfgCall = NoCall
    /\ cfgPrev = NoCall

\* every cache of distinct ids a session can hold (reached under Spec)
ListEntries == UNION { { l[i] : i \in DOMAIN l } : l \in Lists }
CacheEntries == { Merged(p, e) : p \in Payloads, e \in ListEntries }
Caches == {<<>>} \cup { <<a>> : a \in CacheEntries }
          \cup { <<a[1], a[2]>> : a \in { b \in CacheEntries \X CacheEntries :
                                           b[1]["id"] # b[2]["id"] } }

\* the server's device data is fixed from here on: either no session is
\* constructed yet, or a session constructed earlier is between operations
\* with any cache, its last fetch having been answered by an empty list
InitFixed ==
    /\ Quiet
    /\ DiskIdle
    /\ remote \in Remotes
    /\ \/ Blank
       \/ /\ thermostats \in Caches
          /\ thermostatlist = <<>>
          /\ authenticated = TRUE
          /\ access_token = "t1"
          /\ refresh_token = "t1"
          /\ user_password = Unset
          /\ stored = TokenConfig("t1", "t1")
          /\ pc = "idle"

-----------------------------------------------------------------------------
(* Public methods: the call *)

\* __init__ (lines 41-78) with the configuration cfg, given or read from file
Construct ==
    /\ pc = "new"
    /\ \E cfg \in ConfigInputs :
        /\ user_password' = IF "PASSWORD" \in DOMAIN cfg THEN cfg["PASSWORD"] ELSE Unset
        /\ access_token' = IF "ACCESS_TOKEN" \in DOMAIN cfg
                           THEN cfg["ACCESS_TOKEN"] ELSE EmptyStr
        /\ refresh_token' = IF "REFRESH_TOKEN" \in DOMAIN cfg
                            THEN cfg["REFRESH_TOKEN"] ELSE EmptyStr
        /\ stored' = cfg
        /\ op' = "__init__"
        /\ cache0' = <<>>
        /\ IF "REFRESH_TOKEN" \in DOMAIN cfg
           THEN Apply(WithHeader(EnterGetThermostats(NoFrame, <<>>), access_token'))
           ELSE Apply(EnterRequestTokens(NoFrame, <<>>, user_password'))
    /\ UNCHANGED <<thermostatlist, authenticated, remote, disk, sent, last, authReply,
                   fetched, prevFetchOk, lastDev>>

\* get_thermostats(), also reached as update() (lines 224-226)
GetThermostatsCall ==
    /\ pc = "idle"
    /\ op' = "get_thermostats"
    /\ cache0' = thermostats
    /\ Apply(WithHeader(EnterGetThermostats(NoFrame, thermostats), access_token))
    /\ UNCHANGED <<thermostatlist, authenticated, access_token, refresh_token,
                   user_password, stored, remote, disk, sent, last, authReply,
                   fetched, prevFetchOk, lastDev>>

\* get_thermostat_info(deviceid)
GetThermostatInfoCall ==
    /\ pc = "idle"
    /\ \E id \in DeviceIds :
        /\ op' = "get_thermostat_info"
        /\ cache0' = thermostats
        /\ Apply(WithHeader(EnterGetThermostatInfo(NoFrame, thermostats, id),
                            access_token))
    /\ UNCHANGED <<thermostatlist, authenticated, access_token, refresh_token,
                   user_password, stored, remote, disk, sent, last, authReply,
                   fetched, prevFetchOk, lastDev>>

\* a command called with the arguments a: its body is built, then
\* make_request(index, body, log_msg_action)
Command(name, index, a, body) ==
    /\ op' = name
    /\ cache0' = thermostats
    /\ Apply(WithHeader(EnterMakeRequest([NoFrame EXCEPT !.args = a], thermostats,
                                         [type |-> "int", val |-> index],
                                         [type |-> "dict", val |-> body], 0),
                        access_token))
    /\ UNCHANGED <<thermostatlist, authenticated, access_token, refresh_token,
                   user_password, stored, remote, disk, sent, last, authReply,
                   fetched, prevFetchOk, lastDev>>

\* a command whose body cannot be built: the cached device lacks a field
CommandKeyError(name) ==
    /\ op' = name
    /\ cache0' = thermostats
    /\ Apply(Raises(NoFrame, thermostats, "KeyError"))
    /\ UNCHANGED <<thermostatlist, authenticated, access_token, refresh_token,
                   user_password, stored, remote, disk, sent, last, authReply,
                   fetched, prevFetchOk, lastDev>>

ValidIndexes == 0 .. (Len(thermostats) - 1)

\* arguments of the commands
NoArg == [given |-> FALSE, val |-> 0]
Arg(v) == [given |-> TRUE, val |-> v]
HvacModes == {1}
HoldArgs == { [cool_temp |-> NoArg, heat_temp |-> NoArg, hold_duration |-> NoArg],
              [cool_temp |-> Arg(2357), heat_temp |-> NoArg, hold_duration |-> Arg(30)] }

\* set_hvac_mode(index, hvac_mode) (lines 252-256)
SetHvacMode ==
    /\ pc = "idle"
    /\ \E index \in ValidIndexes, hvac_mode \in HvacModes :
        Command("set_hvac_mode", index, [hvac_mode |-> hvac_mode],
                [mode |-> hvac_mode])

\* resume_program(index) (lines 342-350)
ResumeProgram ==
    /\ pc = "idle"
    /\ \E index \in ValidIndexes :
        Command("resume_program", index, <<>>,
                [schedEnabled |-> TRUE, schedOverride |-> 0, geofencingAway |-> FALSE])

\* an omitted argument is read from the cached device (lines 298-303)
Needed(a, key) == IF a.given THEN {} ELSE {key}
Default(a, device, key) == IF a.given THEN a.val ELSE device[key]

\* set_temp_hold sending the setpoints as they are, without rounding
SetTempHoldUnrounded ==
    /\ pc = "idle"
    /\ \E index \in ValidIndexes, a \in HoldArgs :
        LET device == thermostats[index + 1]
            needs == Needed(a.hold_duration, "schedOverrideDuration")
                     \cup Needed(a.cool_temp, "cspHome")
                     \cup Needed(a.heat_temp, "hspHome")
        IN  IF needs \subseteq DOMAIN device
            THEN Command("set_temp_hold", index, a,
                   [hspHome |-> Default(a.heat_temp, device, "hspHome"),
                    cspHome |-> Default(a.cool_temp, device, "cspHome"),
                    schedOverride |-> 1,
                    schedOverrideDuration |->
                        Default(a.hold_duration, device, "schedOverrideDuration")])
            ELSE CommandKeyError("set_temp_hold")

\* set_temp_hold(index, cool_temp, heat_temp, hold_duration) (lines 295-310)
SetTempHold ==
    /\ pc = "idle"
    /\ \E index \in ValidIndexes, a \in HoldArgs :
        LET device == thermostats[index + 1]
            needs == Needed(a.hold_duration, "schedOverrideDuration")
                     \cup Needed(a.cool_temp, "cspHome")
                     \cup Needed(a.heat_temp, "hspHome")
        IN  IF needs \subseteq DOMAIN device
            THEN Command("set_temp_hold", index, a,
                   [hspHome |-> Round1(Default(a.heat_temp, device, "hspHome")),
                    cspHome |-> Round1(Default(a.cool_temp, device, "cspHome")),
                    schedOverride |-> 1,
                    schedOverrideDuration |->
                        Default(a.hold_duration, device, "schedOverrideDuration")])
            ELSE CommandKeyError("set_temp_hold")

PermanentHoldArgs == { [cool_temp |-> NoArg, heat_temp |-> Arg(2111)] }

\* set_permanent_hold(index, cool_temp, heat_temp) (lines 312-326)
SetPermanentHold ==
    /\ pc = "idle"
    /\ \E index \in ValidIndexes, a \in PermanentHoldArgs :
        LET device == thermostats[index + 1]
            needs == Needed(a.cool_temp, "cspHome") \cup Needed(a.heat_temp, "hspHome")
        IN  IF needs \subseteq DOMAIN device
            THEN Command("set_permanent_hold", index, a,
                   [hspHome |-> Round1(Default(a.heat_temp, device, "hspHome")),
                    cspHome |-> Round1(Default(a.cool_temp, device, "cspHome")),
                    schedOverride |-> 0,
                    schedEnabled |-> FALSE])
            ELSE CommandKeyError("set_permanent_hold")

AwayArgs == { [mode |-> TRUE, heat_temp |-> NoArg, cool_temp |-> Arg(2673)] }

\* the away setpoint: the cached value rounded, or the argument as given
\* (lines 330-333)
AwayDefault(a, device, key) == IF a.given THEN a.val ELSE Round1(device[key])

\* set_away(index, mode, heat_temp, cool_temp) (lines 328-340)
SetAway ==
    /\ pc = "idle"
    /\ \E index \in ValidIndexes, a \in AwayArgs :
        LET device == thermostats[index + 1]
            needs == Needed(a.heat_temp, "hspAway") \cup Needed(a.cool_temp, "cspAway")
        IN  IF needs \subseteq DOMAIN device
            THEN Command("set_away", index, a,
                   [geofencingAway |-> a.mode,
                    hspAway |-> AwayDefault(a.heat_temp, device, "hspAway"),
                    cspAway |-> AwayDefault(a.cool_temp, device, "cspAway")])
            ELSE CommandKeyError("set_away")

SchedulePrefixes == {"schedMonPart1"}
ScheduleArgs == { [prefix |-> p, start |-> 24, enable |-> TRUE, label |-> "wakeup",
                   heating |-> 2046, cooling |-> 2400] : p \in SchedulePrefixes }

\* the body of set_thermostat_schedule (lines 266-271)
ScheduleBody(a) ==
    LET field == [Time |-> a.start, Enabled |-> a.enable, Label |-> a.label,
                  hsp |-> a.heating, csp |-> a.cooling]
    IN  [k \in { a.prefix \o suffix : suffix \in DOMAIN field } |->
            field[CHOOSE suffix \in DOMAIN field : k = a.prefix \o suffix]]

\* set_thermostat_schedule(index, prefix, start, enable, label, heating,
\* cooling) (lines 258-274)
SetThermostatSchedule ==
    /\ pc = "idle"
    /\ \E index \in ValidIndexes, a \in ScheduleArgs :
        Command("set_thermostat_schedule", index, a, ScheduleBody(a))

-----------------------------------------------------------------------------
(* HTTP exchanges *)

\* get_thermostats: GET /devices and its handling (lines 124-151)
GetDevices ==
    /\ pc = "get_devices"
    /\ \E s \in GetStatuses :
       \E list \in (IF s = "ok" THEN ListReplies ELSE {<<>>}) :
        /\ Exchange("devices", s)
        /\ CASE s = "down" ->
                  /\ Apply(Returns(frame, thermostats, NoneResult))
                  /\ UNCHANGED <<authenticated, thermostatlist>>
             [] s = "ok" ->
                  /\ authenticated' = TRUE
                  /\ thermostatlist' = list
                  /\ Apply(WithHeader(Loop(frame, thermostats, list, 1), access_token))
             [] OTHER ->
                  /\ authenticated' = FALSE
                  /\ Apply(EnterRefreshTokens(frame, thermostats, "get_thermostats"))
                  /\ UNCHANGED thermostatlist
    /\ UNCHANGED <<access_token, refresh_token, user_password, stored, op,
                   remote, disk, authReply, cache0, fetched, prevFetchOk>>

\* get_thermostat_info: GET /deviceData/{deviceid} and its handling
\* (lines 158-173), up to the next request of the loop that called it
GetInfo ==
    /\ pc = "get_info"
    /\ \E s \in GetStatuses :
       \E info \in (IF s = "ok" THEN InfoReplies(frame.deviceid) ELSE {<<>>}) :
        /\ Exchange("info", s)
        /\ CASE s = "down" ->
                  /\ Apply(ReturnInfo(frame, thermostats, NoneResult))
                  /\ UNCHANGED authenticated
             [] s = "ok" ->
                  /\ authenticated' = TRUE
                  /\ Apply(WithHeader(ReturnInfo(frame, thermostats, Value(info)),
                                      access_token))
             [] OTHER ->
                  /\ authenticated' = FALSE
                  /\ Apply(EnterRefreshTokens(frame, thermostats, "get_thermostat_info"))
        /\ fetched' = IF s = "ok" /\ op # "get_thermostat_info"
                      THEN Append(fetched, info) ELSE fetched
    /\ UNCHANGED <<thermostatlist, access_token, refresh_token, user_password,
                   stored, op, remote, disk, authReply, cache0, prevFetchOk>>

\* make_request writing the fields it has set into the cached device when
\* the PUT succeeds
PutUpdatesCache ==
    /\ pc = "put"
    /\ \E s \in PutStatuses :
        /\ Exchange("put", s)
        /\ CASE s = "down" -> Apply(Returns(frame, thermostats, NoneResult))
             [] s = "ok" ->
                  LET i == frame.index.val + 1
                      device == thermostats[i]
                      updated == [k \in (DOMAIN device) \cup (DOMAIN frame.body) |->
                                    IF k \in DOMAIN frame.body
                                    THEN frame.body[k] ELSE device[k]]
                  IN  Apply(Returns(frame, [thermostats EXCEPT ![i] = updated],
                                    Value("response")))
             [] s = "expired" /\ frame.retry_count = 0 ->
                  Apply(EnterRefreshTokens(frame, thermostats, "make_request"))
             [] OTHER -> Apply(Returns(frame, thermostats, NoneResult))
    /\ UNCHANGED <<thermostatlist, authenticated, access_token, refresh_token,
                   user_password, stored, op, remote, disk, authReply, cache0, fetched,
                   prevFetchOk>>

\* make_request: PUT /deviceData/{deviceID} and its handling (lines 234-250)
Put ==
    /\ pc = "put"
    /\ \E s \in PutStatuses :
        /\ Exchange("put", s)
        /\ CASE s = "down" -> Apply(Returns(frame, thermostats, NoneResult))
             [] s = "ok" -> Apply(Returns(frame, thermostats, Value("response")))
             [] s = "expired" /\ frame.retry_count = 0 ->
                  Apply(EnterRefreshTokens(frame, thermostats, "make_request"))
             [] OTHER -> Apply(Returns(frame, thermostats, NoneResult))
    /\ UNCHANGED <<thermostatlist, authenticated, access_token, refresh_token,
                   user_password, stored, op, remote, disk, authReply, cache0, fetched,
                   prevFetchOk>>

\* refresh_tokens keeping the new access token in memory only
RefreshNotPersisted ==
    /\ pc = "refresh"
    /\ \E s \in AuthStatuses :
       \E token \in (IF s = "ok" THEN Tokens ELSE {EmptyStr}) :
        /\ Exchange("token", s)
        /\ CASE s = "down" ->
                  /\ Apply(Raises(frame, thermostats, "RequestException"))
                  /\ UNCHANGED <<access_token, stored>>
             [] s = "ok" ->
                  /\ access_token' = token
                  /\ stored' = stored
                  /\ Apply(WithHeader(ReturnRefresh(frame, thermostats, TRUE), token))
             [] OTHER ->
                  /\ Apply(EnterRequestTokens(frame, thermostats, user_password))
                  /\ UNCHANGED <<access_token, stored>>
        /\ authReply' = IF s = "ok" THEN [accessToken |-> token, refreshToken |-> ""]
                    ELSE authReply
    /\ UNCHANGED <<thermostatlist, authenticated, refresh_token, user_password,
                   op, remote, disk, cache0, fetched, prevFetchOk>>

\* refresh_tokens: POST /users/auth/token and its handling (lines 111-117);
\* the request is not guarded, a RequestException leaves the method
Refresh ==
    /\ pc = "refresh"
    /\ \E s \in AuthStatuses :
       \E token \in (IF s = "ok" THEN Tokens ELSE {EmptyStr}) :
        /\ Exchange("token", s)
        /\ CASE s = "down" ->
                  /\ Apply(Raises(frame, thermostats, "RequestException"))
                  /\ UNCHANGED <<access_token, stored>>
             [] s = "ok" ->
                  /\ access_token' = token
                  /\ stored' = TokenConfig(token, refresh_token)
                  /\ Apply(WithHeader(ReturnRefresh(frame, thermostats, TRUE), token))
             [] OTHER ->
                  /\ Apply(EnterRequestTokens(frame, thermostats, user_password))
                  /\ UNCHANGED <<access_token, stored>>
        /\ authReply' = IF s = "ok" THEN [accessToken |-> token, refreshToken |-> ""]
                    ELSE authReply
    /\ UNCHANGED <<thermostatlist, authenticated, refresh_token, user_password,
                   op, remote, disk, cache0, fetched, prevFetchOk>>

\* request_tokens keeping the tokens of the response in memory only
LoginNotPersisted ==
    /\ pc = "login"
    /\ \E s \in AuthStatuses :
       \E reply \in (IF s = "ok" THEN LoginReplies
                     ELSE {[accessToken |-> EmptyStr, refreshToken |-> EmptyStr]}) :
        /\ Exchange("login", s)
        /\ IF s = "ok"
           THEN /\ access_token' = reply["accessToken"]
                /\ refresh_token' = reply["refreshToken"]
                /\ stored' = stored
           ELSE UNCHANGED <<access_token, refresh_token, stored>>
        /\ authReply' = IF s = "ok" THEN reply ELSE authReply
        /\ Apply(ReturnRequestTokens(frame, thermostats))
    /\ UNCHANGED <<thermostatlist, authenticated, user_password, op, remote, disk,
                   cache0, fetched, prevFetchOk>>

\* request_tokens: POST /users/auth/login and its handling (lines 86-102)
Login ==
    /\ pc = "login"
    /\ \E s \in AuthStatuses :
       \E reply \in (IF s = "ok" THEN LoginReplies
                     ELSE {[accessToken |-> EmptyStr, refreshToken |-> EmptyStr]}) :
        /\ Exchange("login", s)
        /\ IF s = "ok"
           THEN /\ access_token' = reply["accessToken"]
                /\ refresh_token' = reply["refreshToken"]
                /\ stored' = IF reply["refreshToken"] = None THEN stored
                             ELSE TokenConfig(reply["accessToken"], reply["refreshToken"])
           ELSE UNCHANGED <<access_token, refresh_token, stored>>
        /\ authReply' = IF s = "ok" THEN reply ELSE authReply
        /\ Apply(ReturnRequestTokens(frame, thermostats))
    /\ UNCHANGED <<thermostatlist, authenticated, user_password, op, remote, disk,
                   cache0, fetched, prevFetchOk>>

\* the running operation fetched the device list and every detail
FetchSucceeded ==
    /\ op \in {"__init__", "get_thermostats"}
    /\ raised = ""
    /\ last.ep \in {"devices", "info"}
    /\ last.status = "ok"

\* the public method has returned (or raised) to its caller; a constructor
\* that raised leaves no session
Return ==
    /\ pc = "done"
    /\ pc' = IF op = "__init__" /\ raised # "" THEN "dead" ELSE "idle"
    /\ op' = ""
    /\ frame' = NoFrame
    /\ result' = NoneResult
    /\ raised' = ""
    /\ sent' = NoSent
    /\ last' = NoLast
    /\ authReply' = NoReply
    /\ cache0' = <<>>
    /\ fetched' = <<>>
    /\ lastDev' = NoDev
    /\ prevFetchOk' = (remote.fixed /\ FetchSucceeded)
    /\ UNCHANGED <<session, remote, disk>>

Next ==
    \/ Construct
    \/ GetThermostatsCall
    \/ GetThermostatInfoCall
    \/ SetHvacMode
    \/ ResumeProgram
    \/ SetTempHold
    \/ SetPermanentHold
    \/ SetAway
    \/ SetThermostatSchedule
    \/ GetDevices
    \/ GetInfo
    \/ Put
    \/ Refresh
    \/ Login
    \/ Return

Spec == Init /\ [][Next]_vars

\* a call config_from_file(filename, config)
ConfigFromFileCall ==
    /\ pc = "new"
    /\ \E filename \in Filenames, config \in ConfigArguments, io \in IoOutcomes :
        LET out == ConfigFromFile(files[filename], config, io)
        IN  /\ files' = [files EXCEPT ![filename] = out.content]
            /\ cfgCall' = [filename |-> filename, config |-> config, io |-> io,
                           before |-> files[filename], ret |-> out.ret]
            /\ cfgPrev' = cfgCall
    /\ UNCHANGED <<session, pc, op, frame, result, raised, remote, sent, last,
                   authReply, cache0, fetched, prevFetchOk, lastDev>>

NextConfig == ConfigFromFileCall

SpecConfig == InitConfig /\ [][NextConfig]_vars

SpecFixed == InitFixed /\ [][Next]_vars

-----------------------------------------------------------------------------
(* Vocabulary of the properties *)

CommandOps == {"set_hvac_mode", "resume_program", "set_temp_hold",
               "set_permanent_hold", "set_away", "set_thermostat_schedule"}
FetchOps == {"__init__", "get_thermostats"}

\* requests of the running public method's own kind sent so far
OwnSent ==
    CASE op \in FetchOps -> sent.devices
      [] op = "get_thermostat_info" -> sent.info
      [] op \in CommandOps -> sent.put
      [] OTHER -> 0

Absent == result.kind = "None"

-----------------------------------------------------------------------------
(* Retry discipline *)

\* C1: during every call of get_thermostats, get_thermostat_info or
\* make_request, whatever the server answers, the call's own request has
\* been sent at most twice (the original and at most one retry).
C1_OwnRequestSentAtMostTwice == OwnSent <= 2

\* C2: in make_request, once the first PUT was answered
\* 'authorization_expired' and the refresh succeeded, the PUT is about to
\* be re-sent to the same device with the same body and retry_count 1; and
\* a call that made this retry ends after exactly 2 PUTs, with the raw
\* response when the second PUT succeeded, and absent with no second refresh
\* when it was answered 'authorization_expired' again.
C2_PutRetriedOnceSameArguments ==
    /\ (op \in CommandOps /\ last = [ep |-> "token", status |-> "ok"])
          => /\ pc = "put"
             /\ raised = ""
             /\ sent.put = 1
             /\ frame.retry_count = 1
             /\ frame.index.type = "int"
             /\ frame.deviceid = thermostats[frame.index.val + 1]["id"]
    /\ (op \in CommandOps /\ pc = "done" /\ frame.retry_count = 1)
          => /\ sent.put = 2
             /\ raised = ""
             /\ (last = [ep |-> "put", status |-> "ok"] => result = Value("response"))
             /\ (last = [ep |-> "put", status |-> "expired"]
                    => Absent /\ sent.token = 1)

-----------------------------------------------------------------------------
(* Failure signalling *)

\* C3: no public operation ends with an exception, whatever the transport
\* or the server does: when an operation has ended, nothing was raised.
C3_NoOperationRaises == pc = "done" => raised = ""

-----------------------------------------------------------------------------
(* The device cache *)

CacheIds(cache) == { cache[i]["id"] : i \in DOMAIN cache }
ListedIds == { thermostatlist[k]["id"] : k \in DOMAIN thermostatlist }

\* get_thermostats has returned the cache to its caller
FetchReturned == pc = "done" /\ op = "get_thermostats" /\ raised = "" /\ ~Absent

\* C4: over every sequence of get_thermostats calls and server answers, no
\* step shortens the cache or removes a device id from it, also when the
\* server's list no longer names the device; and the value a successful
\* get_thermostats returns is the whole cache.
C4_CacheNeverShrinks ==
    /\ [][ /\ Len(thermostats') >= Len(thermostats)
           /\ CacheIds(thermostats) \subseteq CacheIds(thermostats') ]_vars
    /\ [](FetchReturned => result.val = thermostats)

\* C4 witness: a fetch has returned a cache holding a device that the list
\* just received does not name.
C4_Witness == FetchReturned /\ ~(CacheIds(thermostats) \subseteq ListedIds)

\* the last position of the list response that names id
LastListed(id) ==
    CHOOSE k \in DOMAIN thermostatlist :
        /\ thermostatlist[k]["id"] = id
        /\ \A m \in DOMAIN thermostatlist :
              thermostatlist[m]["id"] = id => m <= k

\* entry holds exactly the fields of the payload info, with name and id of
\* the list entry e
IsExactly(entry, info, e) ==
    /\ DOMAIN entry = (DOMAIN info) \cup {"name", "id"}
    /\ entry["name"] = e["name"]
    /\ entry["id"] = e["id"]
    /\ \A k \in (DOMAIN info) \ {"name", "id"} : entry[k] = info[k]

\* C5: after a fetch that completed successfully, for every device id the
\* list response names, the cache holds an entry with that id, and it equals
\* exactly the detail payload fetched for it in this call with name and id
\* of the list entry (the last one, should the list name the id twice):
\* nothing of the entry cached before survives.
C5_WholeEntryReplaced ==
    (pc = "done" /\ FetchSucceeded) =>
        \A id \in ListedIds :
            /\ id \in CacheIds(thermostats)
            /\ \A i \in DOMAIN thermostats :
                  thermostats[i]["id"] = id =>
                      IsExactly(thermostats[i], fetched[LastListed(id)],
                                thermostatlist[LastListed(id)])

\* C5 witness: a successful fetch has replaced an entry that held cspHome by
\* a payload without it.
C5_Witness ==
    /\ pc = "done" /\ FetchSucceeded
    /\ \E i \in DOMAIN cache0 : \E j \in DOMAIN thermostats :
          /\ thermostats[j]["id"] = cache0[i]["id"]
          /\ "cspHome" \in DOMAIN cache0[i]
          /\ "cspHome" \notin DOMAIN thermostats[j]

\* C6 (under SpecFixed, the server's list and details unchanged): a
\* successful get_thermostats that directly follows a successful fetch
\* leaves the cache as that fetch left it, ids in the same order and every
\* field equal.
C6_UpsertIdempotent == (FetchReturned /\ prevFetchOk) => thermostats = cache0

\* C6 witness: the second of two successful fetches has returned, with two
\* devices cached.
C6_Witness == FetchReturned /\ prevFetchOk /\ Len(thermostats) = 2

\* C7: while and after a command or a get_thermostat_info call runs, with
\* any outcome, the cache equals the cache before the call: only
\* get_thermostats writes cache entries.
C7_CommandsLeaveCache ==
    op \in CommandOps \cup {"get_thermostat_info"} => thermostats = cache0

\* C7 witness: set_temp_hold has ended after a failed refresh and the
\* fallback login, on a session that caches a device.
C7_Witness ==
    /\ pc = "done" /\ op = "set_temp_hold"
    /\ sent.token = 1 /\ sent.login = 1
    /\ thermostats # <<>>

-----------------------------------------------------------------------------
(* Authentication state and error handling *)

\* C8: when an operation that sent a device-endpoint request has returned
\* to its caller, the authenticated flag is true only if the most recent
\* such request succeeded with the access token the session now holds.
C8_AuthenticatedMeansLastRequestOk ==
    (pc = "done" /\ raised = "" /\ sent.devices + sent.info + sent.put > 0) =>
        (authenticated => lastDev.ok /\ lastDev.token = access_token)

\* the last exchange was the running public method's own request
OwnAnswered ==
    \/ op \in FetchOps /\ last.ep = "devices"
    \/ op = "get_thermostat_info" /\ last.ep = "info"
    \/ op \in CommandOps /\ last.ep = "put"

\* C9: once an authenticated call's request is answered by a non-2xx status
\* that is not 'authorization expired', the call has ended absent: no
\* refresh, no login and no retry follows.
C9_OtherErrorsNotRetried ==
    (OwnAnswered /\ last.status \in {"denied", "error"}) =>
        (pc = "done" /\ raised = "" /\ Absent)

\* C10: within one get_thermostats call, the list request and all detail
\* fetches together, the token refresh endpoint is invoked at most once.
C10_OneRefreshPerFetch == op \in FetchOps => sent.token <= 1

-----------------------------------------------------------------------------
(* Construction and credentials *)

\* the constructor took the login path (no refresh token configured) and
\* the login was answered with success
LoggedInAtConstruction ==
    /\ op = "__init__"
    /\ sent.login = 1
    /\ sent.token = 0
    /\ last.ep \in {"login", "devices", "info"}
    /\ (last.ep = "login" => last.status = "ok")

\* C11: when the constructor of a session with no refresh token has logged
\* in successfully and returns, it has requested the device list, and the
\* cache holds every device of the list response.
C11_ConstructionFetchesAfterLogin ==
    (pc = "done" /\ LoggedInAtConstruction) =>
        /\ sent.devices >= 1
        /\ ListedIds \subseteq CacheIds(thermostats)

\* refresh_tokens has returned True: its caller makes the retry call, which
\* is about to send or has raised on entry
RetryEntered ==
    CASE frame.caller = "get_thermostats" ->
            pc' = "get_devices" \/ raised' = "RecursionError"
      [] frame.caller = "get_thermostat_info" ->
            pc' = "get_info" \/ raised' = "RecursionError"
      [] OTHER -> pc' = "put" \/ raised' = "TypeError"

\* C12: the step of refresh_tokens whose request is answered with success
\* sets the access token to the returned one, leaves the refresh token and
\* the device cache as they were, persists the mapping of the new access
\* token, the refresh token and the email, and returns True: the caller
\* makes its retry call.
C12_RefreshSuccessEffect ==
    [][ (pc = "refresh" /\ last'.ep = "token" /\ last'.status = "ok") =>
          /\ access_token' = authReply'.accessToken
          /\ refresh_token' = refresh_token
          /\ thermostats' = thermostats
          /\ stored' = [ACCESS_TOKEN |-> access_token',
                        REFRESH_TOKEN |-> refresh_token, EMAIL |-> Email]
          /\ RetryEntered ]_vars

\* C12 witness: a refresh has just replaced the access token t1 of a session
\* built from persisted tokens by t2, during the detail fetches of a session
\* that caches a device.
C12_Witness ==
    /\ last.ep = "token" /\ last.status = "ok"
    /\ pc = "get_info"
    /\ thermostats # <<>>
    /\ access_token = "t2" /\ refresh_token = "t1"
    /\ stored = TokenConfig("t2", "t1")

\* the last exchange was a login or a refresh answered with success
AuthSucceeded == last.ep \in {"login", "token"} /\ last.status = "ok"

\* the persisted mapping holds the tokens the session holds
PersistedAsHeld ==
    /\ {"ACCESS_TOKEN", "REFRESH_TOKEN"} \subseteq DOMAIN stored
    /\ stored["ACCESS_TOKEN"] = access_token
    /\ stored["REFRESH_TOKEN"] = refresh_token

\* C13 (as claimed): after any login or refresh answered with success,
\* whatever the response holds, the persisted mapping holds the access token
\* and the refresh token the session holds.
C13_PersistedEqualsSession == AuthSucceeded => PersistedAsHeld

\* C13 (amended): after a login answered with success the session holds
\* both tokens of the response, and after a refresh answered with success
\* the access token of the response; when the response carried a refresh
\* token other than null, or was that of a refresh, the persisted mapping
\* holds the tokens the session holds; a login response whose refresh token
\* is null leaves the persisted mapping as it was.
C13_PersistedWhenRefreshTokenGiven ==
    /\ [](AuthSucceeded =>
            /\ access_token = authReply.accessToken
            /\ (last.ep = "login" => refresh_token = authReply.refreshToken)
            /\ (authReply.refreshToken # None => PersistedAsHeld))
    /\ [][ (pc = "login" /\ last'.status = "ok"
              /\ authReply'.refreshToken = None) => stored' = stored ]_vars

\* C13 witness: the fallback login after a failed refresh was answered with
\* both tokens, which replaced those the session and the file held.
C13_Witness ==
    /\ last.ep = "login" /\ last.status = "ok"
    /\ sent.token = 1
    /\ authReply.refreshToken = "t1"
    /\ stored = TokenConfig("t1", "t1")
    /\ cache0 # <<>>

-----------------------------------------------------------------------------
(* Commands *)

\* the commands that transmit setpoints, and the body fields that hold them
SetpointOps == {"set_temp_hold", "set_permanent_hold", "set_away",
                "set_thermostat_schedule"}
SetpointFields ==
    {"hspHome", "cspHome", "hspAway", "cspAway"}
    \cup { p \o suffix : p \in SchedulePrefixes, suffix \in {"hsp", "csp"} }

\* the running command has built its body and handed it to make_request
BodyBuilt == op \in CommandOps /\ (pc = "put" \/ sent.put > 0)

\* x (in hundredths of a degree) has one decimal place
OneDecimal(x) == x % 10 = 0

\* C14: every setpoint in the body a setpoint command transmits has one
\* decimal place, whether the caller supplied it or it came from the cache.
C14_SetpointsRounded ==
    (BodyBuilt /\ op \in SetpointOps) =>
        \A k \in SetpointFields \cap DOMAIN frame.body : OneDecimal(frame.body[k])

\* y is x rounded to one decimal place (both in hundredths of a degree)
IsRoundingOf(y, x) == OneDecimal(y) /\ y - x \in -5 .. 5

\* the argument when it was supplied, the cached device's field otherwise
SuppliedOrCached(a, key) ==
    IF a.given THEN a.val ELSE cache0[frame.index.val + 1][key]

\* C15: the body set_temp_hold hands to make_request holds exactly hspHome,
\* cspHome, schedOverride and schedOverrideDuration; schedOverride is 1;
\* hspHome, cspHome and schedOverrideDuration are those of the cached device
\* at index, the temperatures rounded to one decimal place, except that a
\* supplied argument stands in for the cached value of its own field only.
C15_TempHoldDefaults ==
    (BodyBuilt /\ op = "set_temp_hold") =>
        /\ DOMAIN frame.body =
              {"hspHome", "cspHome", "schedOverride", "schedOverrideDuration"}
        /\ frame.body["schedOverride"] = 1
        /\ frame.body["schedOverrideDuration"] =
              SuppliedOrCached(frame.args.hold_duration, "schedOverrideDuration")
        /\ IsRoundingOf(frame.body["hspHome"],
                        SuppliedOrCached(frame.args.heat_temp, "hspHome"))
        /\ IsRoundingOf(frame.body["cspHome"],
                        SuppliedOrCached(frame.args.cool_temp, "cspHome"))

\* C15 witness: set_temp_hold called with the index alone has sent its PUT,
\* the cached hspHome 20.46 going out as 20.5 and the cached cspHome 24.32 as
\* 24.3.
C15_Witness ==
    /\ op = "set_temp_hold" /\ sent.put = 1 /\ last.status = "ok"
    /\ ~frame.args.heat_temp.given
    /\ ~frame.args.cool_temp.given
    /\ ~frame.args.hold_duration.given
    /\ cache0[frame.index.val + 1]["hspHome"] = 2046
    /\ frame.body["hspHome"] = 2050
    /\ cache0[frame.index.val + 1]["cspHome"] = 2432
    /\ frame.body["cspHome"] = 2430

-----------------------------------------------------------------------------
(* The config file *)

\* the last two calls were config_from_file(f, m) and then
\* config_from_file(f), and no open() failed
WrittenThenRead ==
    /\ cfgPrev.config.given
    /\ ~cfgCall.config.given
    /\ cfgCall.filename = cfgPrev.filename
    /\ cfgPrev.io = "ok" /\ cfgCall.io = "ok"

\* the last call was config_from_file(f) on a filename that does not exist
ReadMissing ==
    /\ cfgCall.filename # ""
    /\ ~cfgCall.config.given
    /\ files[cfgCall.filename] = Missing

\* C16 (as claimed): for every mapping m, empty or not, and filename f,
\* config_from_file(f, m) followed by config_from_file(f) returns a mapping
\* equal to m, whatever f held before; and config_from_file(f) on a filename
\* that does not exist returns the empty mapping.
C16_ConfigRoundTrip ==
    /\ WrittenThenRead => cfgCall.ret = ReturnsMapping(cfgPrev.config.val)
    /\ ReadMissing => cfgCall.ret = ReturnsMapping(EmptyMapping)

\* C16 (amended): for every mapping m that is not empty and filename f,
\* when no open() fails, config_from_file(f, m) returns True and
\* config_from_file(f) then returns a mapping equal to m, whatever f held
\* before; config_from_file(f, m) with m empty writes nothing and leaves
\* every file as it was; and config_from_file(f) on a filename that does not
\* exist returns the empty mapping.
C16_NonEmptyRoundTrip ==
    /\ []((WrittenThenRead /\ DOMAIN cfgPrev.config.val # {}) =>
            /\ cfgPrev.ret = ReturnsBool(TRUE)
            /\ cfgCall.ret = ReturnsMapping(cfgPrev.config.val))
    /\ [](ReadMissing => cfgCall.ret = ReturnsMapping(EmptyMapping))
    /\ [][ cfgCall'.config = GivenConfig(EmptyMapping) => files' = files ]_vars

\* C16 witness: a mapping that holds a None value was written over a file
\* that held something else than JSON, and read back.
C16_Witness ==
    /\ WrittenThenRead
    /\ cfgPrev.before = Garbage
    /\ "REFRESH_TOKEN" \in DOMAIN cfgPrev.config.val
    /\ cfgPrev.config.val["REFRESH_TOKEN"] = None
    /\ cfgCall.ret.kind = "dict"

-----------------------------------------------------------------------------
(* Identity and position of the cached devices *)

\* C17: in every reachable state no two entries of the cache have the same
\* id, also after a list response that names an id more than once.
C17_CacheIdsUnique ==
    \A i, j \in DOMAIN thermostats :
        thermostats[i]["id"] = thermostats[j]["id"] => i = j

\* C17 witness: a fetch whose list response named d1 twice has completed.
C17_Witness ==
    /\ pc = "done" /\ FetchSucceeded
    /\ Len(thermostatlist) = 2
    /\ thermostatlist[1]["id"] = thermostatlist[2]["id"]
    /\ Len(thermostats) = 2

\* C18: no step moves a cached device: the id at a position of the cache is
\* at that position after every step; and the device id make_request
\* addresses is the id the cache held at the index when the command was
\* called.
C18_PositionsStable ==
    /\ [][ \A i \in DOMAIN thermostats :
             /\ i \in DOMAIN thermostats'
             /\ thermostats'[i]["id"] = thermostats[i]["id"] ]_vars
    /\ []((op \in CommandOps /\ pc = "put") =>
            frame.deviceid = cache0[frame.index.val + 1]["id"])

\* C18 witness: a fetch has completed whose list response named the two
\* cached devices in the opposite order of the cache.
C18_Witness ==
    /\ pc = "done" /\ FetchSucceeded
    /\ Len(cache0) = 2 /\ Len(thermostatlist) = 2
    /\ cache0[1]["id"] = thermostatlist[2]["id"]
    /\ cache0[2]["id"] = thermostatlist[1]["id"]

-----------------------------------------------------------------------------
(* Fallback to a full login *)

\* C19: once the refresh endpoint has answered with a non-success status,
\* the login request is about to be sent; and once that login has been
\* answered or has failed, with whatever outcome, the call that triggered
\* the refresh has ended absent after exactly one login, without a retry of
\* its own request.
C19_FailedRefreshLogsInOnce ==
    /\ (last.ep = "token" /\ last.status = "error") => pc = "login"
    /\ (last.ep = "login" /\ sent.token >= 1) =>
          /\ pc = "done" /\ raised = "" /\ Absent
          /\ sent.login = 1

-----------------------------------------------------------------------------
(* The token carried by the requests *)

\* C20: a request about to be sent to a device endpoint carries as Bearer
\* token the access token the session holds, and the request a step sends
\* carried the access token held when the step began; the retry that
\* follows a successful refresh carries the access token that refresh
\* returned.
C20_BearerIsCurrentToken ==
    /\ [](pc \in RequestPcs => frame.bearer = access_token)
    /\ [][ (pc \in RequestPcs /\ sent' # sent) =>
              lastDev'.token = access_token ]_vars
    /\ []((pc \in RequestPcs /\ last.ep = "token") =>
              frame.bearer = authReply.accessToken)

\* C20 witness: a detail request sent with t1 was rejected, the refresh
\* returned t2, and the retry is about to be sent with t2.
C20_Witness ==
    /\ pc = "get_info"
    /\ last.ep = "token" /\ last.status = "ok"
    /\ ~lastDev.ok /\ lastDev.token = "t1"
    /\ access_token = "t2"
    /\ frame.bearer = "t2"

-----------------------------------------------------------------------------
(* A fetch that fails *)

\* get_thermostats, called directly or by the constructor's update(), has
\* returned None
FetchReturnedAbsent ==
    /\ pc = "done" /\ op \in FetchOps
    /\ sent.devices >= 1
    /\ raised = "" /\ Absent

\* C21: whenever get_thermostats has returned None, the cache equals the
\* cache before the call, also when tokens were refreshed or replaced by a
\* login during the call.
C21_AbsentFetchLeavesCache == FetchReturnedAbsent => thermostats = cache0

\* C21 witness: get_thermostats on a session that caches a device has
\* returned None after a refresh that replaced the access token and a retry
\* that met a transport failure.
C21_Witness ==
    /\ FetchReturnedAbsent /\ op = "get_thermostats"
    /\ cache0 # <<>>
    /\ sent.token = 1 /\ sent.devices = 2
    /\ last.ep = "devices" /\ last.status = "down"
    /\ lastDev.token = authReply.accessToken
    /\ stored = TokenConfig(access_token, refresh_token)

====
